---- MODULE Spec2Model ----
(***************************************************************************)
(* Walk-and-transform engine of prairir/encryptdir:                        *)
(*   pkg/encryptdir/encrypt.go  encryptDirectories, Walker.encryptWalk     *)
(*   pkg/encryptdir/decrypt.go  decrypt, Walker.decryptWalk                *)
(*                                                                         *)
(* Paths are sequences of one-character strings, file contents are         *)
(* sequences of bytes (0..255).  The file system maps the path of every    *)
(* regular file to its bytes and permission bits; paths are relative to    *)
(* the working directory of the process.  cwalk.Walk hands the callback    *)
(* the path of an entry relative to the root it walks (encrypt.go:82 joins *)
(* it with startPath), and runs callbacks of different entries             *)
(* concurrently.                                                           *)
(***************************************************************************)
EXTENDS Integers, Sequences, FiniteSets, TLC

VARIABLES
    keyMap,       \* map[string][]byte handed to the run (extension -> key)
    directories,  \* []string: the roots handed to the run
    runs,         \* the operations the caller issues back to back
    fs,           \* regular files: path -> [data, mode]
    dirs,         \* directories that exist
    runIdx,       \* index in runs of the current (or last) run
    phase,        \* "idle" | "running": is a dispatcher call in progress
    rootState,    \* per root index: "spawned" | "walking" | "received"
    tasks,        \* <<root index, relative path>> -> per-entry callback state
    errList,      \* the dispatcher's merged cwalk.WalkerErrorList.ErrorList
    result,       \* what each finished dispatcher call returned: "nil" | "error"
    crashed,      \* a goroutine panicked: the process is gone
    faults,       \* I/O failures injected so far
    hist          \* history: file system at start / end of each run

vars == <<keyMap, directories, runs, fs, dirs, runIdx, phase, rootState,
          tasks, errList, result, crashed, faults, hist>>

----------------------------------------------------------------------------
(* Bounds of the model *)

\* size in bytes of the signing identity's modulus = length of a signature
RSAKeyBytes == 45
\* I/O failures injected in one behaviour
MaxFaults == 1
\* dispatcher calls issued back to back by the caller
MaxRuns == 2

(* Constants of the program *)

\* crypto.MD5.Size()
MD5Size == 16
\* capacity of the buffer io.ReadAll starts with
ReadAllCap == 512

----------------------------------------------------------------------------
(* Byte strings *)

Byte == 0..255

Max(S) == CHOOSE x \in S : \A y \in S : y <= x

Min2(a, b) == IF a <= b THEN a ELSE b

\* the first n bytes of the backing array of s: s[:n] of a slice whose
\* spare capacity is zero-filled
SliceTo(s, n) == [i \in 1..n |-> IF i <= Len(s) THEN s[i] ELSE 0]

Prefix(s, n) == SubSeq(s, 1, Min2(n, Len(s)))

Drop(s, n) == SubSeq(s, n + 1, Len(s))

----------------------------------------------------------------------------
(* External primitives: pkg/rsa and pkg/aes, by their contracts *)

\* the marker length known to encrypt: the length of a signature
SIGNATURE_SIZE == RSAKeyBytes

\* rsa.CreateSignature(privKey, key, crypto.MD5): deterministic signature
\* of the key bytes, RSAKeyBytes long
CreateSignature(key) ==
    [i \in 1..RSAKeyBytes |-> (key[1] + 31 * i + 3 * Len(key)) % 256]

\* rsa.VerifySignature(pub, sig, key, crypto.MD5) = nil
VerifySignature(sig, key) == sig = CreateSignature(key)

\* nonces aes.Encrypt may draw
Nonces == {7, 9}

\* aes.Encrypt(key, plain) with the nonce it drew
Encrypt(key, plain, nonce) ==
    <<nonce>> \o [i \in 1..Len(plain) |-> (plain[i] + key[1] + nonce + i) % 256]

\* aes.Decrypt(key, cipher): fails on input too short to hold a nonce
DecryptOk(key, cipher) == Len(cipher) >= 1

Decrypt(key, cipher) ==
    [i \in 1..(Len(cipher) - 1) |->
        (cipher[i + 1] + 512 - key[1] - cipher[1] - i) % 256]

----------------------------------------------------------------------------
(* Paths: path/filepath *)

\* filepath.Ext: the suffix from the last dot of the last element
Ext(path) ==
    LET dotsAt == {i \in 1..Len(path) :
                     path[i] = "." /\ \A j \in i..Len(path) : path[j] # "/"}
    IN  IF dotsAt = {} THEN <<>> ELSE SubSeq(path, Max(dotsAt), Len(path))

\* filepath.Join(startPath, path), for clean operands
Join(startPath, path) ==
    IF startPath = <<".">> THEN path ELSE startPath \o <<"/">> \o path

\* the directory a path lives in
DirOf(path) ==
    LET seps == {i \in 1..Len(path) : path[i] = "/"}
    IN  IF seps = {} THEN <<".">> ELSE SubSeq(path, 1, Max(seps) - 1)

\* is p strictly below root
Under(root, p) ==
    IF root = <<".">> THEN p # <<".">>
    ELSE /\ Len(p) > Len(root) + 1
         /\ SubSeq(p, 1, Len(root) + 1) = root \o <<"/">>

\* p relative to root
Rel(root, p) ==
    IF root = <<".">> THEN p ELSE SubSeq(p, Len(root) + 2, Len(p))

EncSuffix == <<".", "e", "n", "c">>
DecSuffix == <<".", "d", "e", "c">>

----------------------------------------------------------------------------
(* Inputs of a run *)

Ops == {"encrypt", "decrypt"}

K1 == <<11, 22>>

\* KeyMap keyed as the loader documents it (no leading separator), and one
\* that also carries the dotted spelling
KeyMaps ==
    { [e \in {<<"t">>} |-> K1],
      [e \in {<<"t">>, <<".", "t">>} |-> K1] }

\* permission bits a process never gets when it creates a file
Umask == {"gw", "ow"}

ModeRW == {"ur", "uw", "gr"}
\* 0664: a mode with a bit the process umask clears
ModeGW == ModeRW \cup {"gw"}

Empty == <<>>
Short == <<104, 105>>
Long  == [i \in 1..(SIGNATURE_SIZE + 2) |-> 65]
Sealed == CreateSignature(K1) \o Encrypt(K1, Short, 7)

Contents == {Empty, Short, Long, Sealed}

File(data, mode) == [data |-> data, mode |-> mode]

pA  == <<"a", ".", "t">>
pB  == <<"b", ".", "x">>
pR  == <<"R">>
dS  == <<"s">>
dU  == <<"u">>
pSA == <<"s", "/", "a", ".", "t">>
pSR == <<"s", "/", "R">>
pUC == <<"u", "/", "c", ".", "t">>

Scenario(files, ds, roots) == [files |-> files, dirs |-> ds, directories |-> roots]

\* one root: one eligible file; a file without extension; a file whose
\* extension has no key; an eligible file in a subdirectory
OneRoot ==
    { Scenario(pA :> File(c, ModeRW), {<<".">>}, <<<<".">>>>) : c \in Contents }
    \cup { Scenario(pR :> File(Short, ModeRW), {<<".">>}, <<<<".">>>>),
           Scenario(pB :> File(Short, ModeRW), {<<".">>}, <<<<".">>>>),
           Scenario(pSA :> File(Short, ModeRW), {<<".">>, dS}, <<<<".">>>>) }

\* one root with an eligible group-writable file
GroupWritable ==
    { Scenario(pA :> File(Short, ModeGW), {<<".">>}, <<<<".">>>>) }

\* the same root listed twice (two workers per path), and two disjoint roots
TwoRoots ==
    { Scenario(pA :> File(c, ModeRW), {<<".">>}, << <<".">>, <<".">> >>)
        : c \in {Short, Sealed} }
    \cup { Scenario(pSA :> File(Short, ModeRW) @@ pUC :> File(Short, ModeRW),
                    {<<".">>, dS, dU}, <<dS, dU>>),
           Scenario(pSR :> File(Short, ModeRW) @@ pUC :> File(Short, ModeRW),
                    {<<".">>, dS, dU}, <<dS, dU>>) }

\* the calls the caller issues back to back
RunLists == UNION { [1..n -> Ops] : n \in 1..MaxRuns }

\* the trees, root lists and call sequences a behaviour starts from
Inputs ==
    { [sc |-> sc, rl |-> rl] : sc \in OneRoot, rl \in RunLists }
    \cup { [sc |-> sc, rl |-> rl] : sc \in TwoRoots \cup GroupWritable,
                                    rl \in [1..1 -> Ops] }

NoKey == <<>>

Init ==
    \E in \in Inputs, km \in KeyMaps :
        /\ keyMap = km
        /\ directories = in.sc.directories
        /\ runs = in.rl
        /\ fs = in.sc.files
        /\ dirs = in.sc.dirs
        /\ runIdx = 0
        /\ phase = "idle"
        /\ rootState = [r \in DOMAIN in.sc.directories |-> "received"]
        /\ tasks = <<>>
        /\ errList = {}
        /\ result = <<>>
        /\ crashed = FALSE
        /\ faults = 0
        /\ hist = [init |-> in.sc.files, start |-> <<>>, end |-> <<>>]

----------------------------------------------------------------------------
(* The caller and cwalk.Walk *)

op == runs[runIdx]

Roots == DOMAIN directories

\* the caller issues the next dispatcher call; the dispatcher spawns one
\* goroutine per root (encrypt.go:24-33, decrypt.go:27-31)
StartRun ==
    /\ ~crashed
    /\ phase = "idle"
    /\ runIdx < Len(runs)
    /\ runIdx' = runIdx + 1
    /\ phase' = "running"
    /\ rootState' = [r \in Roots |-> "spawned"]
    /\ tasks' = <<>>
    /\ errList' = {}
    /\ hist' = [hist EXCEPT !.start = Append(@, fs)]
    /\ UNCHANGED <<keyMap, directories, runs, fs, dirs, result, crashed, faults>>

\* the entries cwalk finds below a root, by path relative to the root
Entries(root) ==
    { [path |-> Rel(root, p), isDir |-> FALSE, mode |-> fs[p].mode]
        : p \in {q \in DOMAIN fs : Under(root, q)} }
    \cup
    { [path |-> Rel(root, d), isDir |-> TRUE, mode |-> {"ur", "uw", "ux"}]
        : d \in {q \in dirs : Under(root, q)} }

NewTask(e, bad) ==
    [pc |-> "start", isDir |-> e.isDir, mode |-> e.mode, enumErr |-> bad,
     key |-> NoKey, plain |-> <<>>, wSig |-> <<>>, res |-> "pending",
     created |-> FALSE, renamed |-> FALSE,
     sent |-> 0, held |-> 0, errPath |-> <<>>]

\* cwalk.Walk(dir, w.encryptWalk) lists the tree: one callback per entry;
\* an entry it could not stat is handed over with a non-nil err
WalkStart(r) ==
    /\ ~crashed
    /\ phase = "running"
    /\ rootState[r] = "spawned"
    /\ \E bad \in SUBSET Entries(directories[r]) :
        /\ Cardinality(bad) <= MaxFaults - faults
        /\ faults' = faults + Cardinality(bad)
        /\ tasks' = [t \in DOMAIN tasks \cup
                            {<<r, e.path>> : e \in Entries(directories[r])} |->
                        IF t \in DOMAIN tasks THEN tasks[t]
                        ELSE LET e == CHOOSE e \in Entries(directories[r]) :
                                          e.path = t[2]
                             IN  NewTask(e, e \in bad)]
    /\ rootState' = [rootState EXCEPT ![r] = "walking"]
    /\ UNCHANGED <<keyMap, directories, runs, fs, dirs, runIdx, phase,
                   errList, result, crashed, hist>>

----------------------------------------------------------------------------
(* File system calls *)

\* os.OpenFile(path, os.O_RDONLY, _) can succeed
CanOpen(path) == path \in DOMAIN fs /\ "ur" \in fs[path].mode

\* os.OpenFile(path, O_WRONLY|O_CREATE|O_EXCL, perm): the file system after
\* the call created the file
CreateExcl(f, path, perm) ==
    [q \in DOMAIN f \cup {path} |->
        IF q = path THEN File(<<>>, perm \ Umask) ELSE f[q]]

\* File.Write(bytes) on the file created at path
WriteTo(f, path, bytes) ==
    [f EXCEPT ![path].data = @ \o bytes]

\* os.Rename(from, to): to is replaced by the file at from
Rename(f, from, to) ==
    [q \in (DOMAIN f \ {from}) \cup {to} |-> IF q = to THEN f[from] ELSE f[q]]

\* a write that fails may have written nothing or part of its bytes
Torn(bytes) == {<<>>, Prefix(bytes, Len(bytes) \div 2)}

----------------------------------------------------------------------------
(* Per-entry callbacks: shared parts *)

env == <<keyMap, directories, runs, dirs, runIdx, phase, rootState,
         errList, result, hist>>

Live(t, o, at) ==
    /\ ~crashed
    /\ phase = "running"
    /\ op = o
    /\ tasks[t].pc = at

\* errChan <- res; return: the worker sends its outcome on the buffered
\* channel and is left with its deferred Close calls
Finish(t, res) ==
    tasks' = [tasks EXCEPT ![t].pc = "sent", ![t].res = res, ![t].sent = @ + 1]

Goto(t, at) == tasks' = [tasks EXCEPT ![t].pc = at]

\* a callback that hands the enumeration error on to the walker
Skip_fatal(t) == tasks' = [tasks EXCEPT ![t].pc = "done", ![t].res = "walk error"]

\* if err != nil { return nil }: the callback returns before it starts a
\* worker
Skip(t) == tasks' = [tasks EXCEPT ![t].pc = "done", ![t].res = "nil"]

\* a goroutine panics: the runtime ends the process
Panic ==
    /\ crashed' = TRUE
    /\ UNCHANGED <<tasks, fs, faults>>

CanFail == faults < MaxFaults

\* a failed call whose error is dropped: the worker reports success
Fail_swallow(t, res) ==
    /\ CanFail
    /\ faults' = faults + 1
    /\ Finish(t, "nil")

\* an I/O, signature or cipher call of the worker fails: errChan <- err
Fail(t, res) ==
    /\ CanFail
    /\ faults' = faults + 1
    /\ Finish(t, res)

----------------------------------------------------------------------------
(* Walker.encryptWalk, encrypt.go:61-158 *)

\* fullPath := filepath.Join(startPath, path)
EncFullPath(t) == Join(directories[t[1]], t[2])

EncTemp(t) == EncFullPath(t) \o EncSuffix

\* key, ok := keyMap[ext[1:]]: the key looked up (ext is not empty)
EncLookupKey(ext) == Tail(ext)

\* a slice expression bounded by the length of plain, not by its capacity
SigSliceOk_exact(plain) == SIGNATURE_SIZE <= Len(plain)

\* sig := plain[:aes.SIGNATURE_SIZE] is within the capacity of plain
SigSliceOk(plain) ==
    SIGNATURE_SIZE <= (IF Len(plain) < ReadAllCap THEN ReadAllCap ELSE Len(plain))

\* the gate of encrypt reading as many bytes as the gate of decrypt does
EncGate_md5(plain, key) ==
    VerifySignature(SliceTo(plain, MD5Size), key)

\* a gate that never recognises a marker
EncGate_never(plain, key) == FALSE

\* rsa.VerifySignature(&privKey.PublicKey, sig, key, crypto.MD5) == nil
\* on sig := plain[:aes.SIGNATURE_SIZE]
EncGate(plain, key) ==
    VerifySignature(SliceTo(plain, SIGNATURE_SIZE), key)

\* lines 62-80: enumeration error, directory, extension lookup
EncStart(t) ==
    /\ Live(t, "encrypt", "start")
    /\ IF tasks[t].enumErr
       THEN Skip(t) /\ UNCHANGED <<fs, crashed, faults>>
       ELSE IF tasks[t].isDir
       THEN Finish(t, "nil") /\ UNCHANGED <<fs, crashed, faults>>
       ELSE LET ext == Ext(t[2]) IN
            IF Len(ext) = 0
            THEN Panic
            ELSE IF EncLookupKey(ext) \notin DOMAIN keyMap
                 THEN Finish(t, "nil") /\ UNCHANGED <<fs, crashed, faults>>
                 ELSE /\ tasks' = [tasks EXCEPT ![t].pc = "open",
                                                ![t].key = keyMap[EncLookupKey(ext)]]
                      /\ UNCHANGED <<fs, crashed, faults>>
    /\ UNCHANGED env

\* lines 84-88: os.OpenFile(fullPath, os.O_RDONLY, info.Mode())
EncOpen(t) ==
    /\ Live(t, "encrypt", "open")
    /\ \/ /\ CanOpen(EncFullPath(t))
          /\ tasks' = [tasks EXCEPT ![t].pc = "read", ![t].held = 1,
                                    ![t].plain = fs[EncFullPath(t)].data]
          /\ UNCHANGED faults
       \/ /\ ~CanOpen(EncFullPath(t))
          /\ Finish(t, "os.OpenFile")
          /\ UNCHANGED faults
       \/ Fail(t, "os.OpenFile")
    /\ UNCHANGED <<fs, crashed>>
    /\ UNCHANGED env

\* lines 91-103: io.ReadAll, then the idempotency gate
EncRead(t) ==
    /\ Live(t, "encrypt", "read")
    /\ \/ /\ IF ~SigSliceOk(tasks[t].plain)
             THEN Panic
             ELSE /\ IF EncGate(tasks[t].plain, tasks[t].key)
                     THEN Finish(t, "nil")
                     ELSE Goto(t, "sign")
                  /\ UNCHANGED <<crashed, faults>>
       \/ Fail(t, "io.ReadAll") /\ UNCHANGED crashed
    /\ UNCHANGED fs
    /\ UNCHANGED env

\* lines 105-109: rsa.CreateSignature(privKey, key, crypto.MD5)
EncSign(t) ==
    /\ Live(t, "encrypt", "sign")
    /\ \/ /\ tasks' = [tasks EXCEPT ![t].pc = "create",
                                    ![t].wSig = CreateSignature(tasks[t].key)]
          /\ UNCHANGED faults
       \/ Fail(t, "rsa.CreateSignature")
    /\ UNCHANGED <<fs, crashed>>
    /\ UNCHANGED env

\* the create without O_EXCL: an existing temporary file is opened and used
EncCreate_noExcl(t) ==
    /\ Live(t, "encrypt", "create")
    /\ fs' = IF EncTemp(t) \in DOMAIN fs THEN fs
             ELSE CreateExcl(fs, EncTemp(t), tasks[t].mode)
    /\ tasks' = [tasks EXCEPT ![t].pc = "wsig", ![t].created = TRUE,
                              ![t].held = 2]
    /\ UNCHANGED <<crashed, faults>>
    /\ UNCHANGED env

\* lines 111-122: os.OpenFile(fullPath+".enc", O_WRONLY|O_CREATE|O_EXCL, info.Mode())
EncCreate(t) ==
    /\ Live(t, "encrypt", "create")
    /\ \/ /\ EncTemp(t) \in DOMAIN fs
          /\ Finish(t, "nil")
          /\ UNCHANGED <<fs, faults>>
       \/ /\ EncTemp(t) \notin DOMAIN fs
          /\ fs' = CreateExcl(fs, EncTemp(t), tasks[t].mode)
          /\ tasks' = [tasks EXCEPT ![t].pc = "wsig", ![t].created = TRUE,
                                    ![t].held = 2]
          /\ UNCHANGED faults
       \/ /\ EncTemp(t) \notin DOMAIN fs
          /\ Fail(t, "os.OpenFile")
          /\ UNCHANGED fs
    /\ UNCHANGED crashed
    /\ UNCHANGED env

\* the marker written to the file itself instead of the temporary file
EncWriteSig_inPlace(t) ==
    /\ Live(t, "encrypt", "wsig")
    /\ fs' = WriteTo(fs, EncFullPath(t), tasks[t].wSig)
    /\ Goto(t, "wcipher")
    /\ UNCHANGED <<crashed, faults>>
    /\ UNCHANGED env

\* lines 125-129: encFile.Write(wSig)
EncWriteSig(t) ==
    /\ Live(t, "encrypt", "wsig")
    /\ \/ /\ fs' = WriteTo(fs, EncTemp(t), tasks[t].wSig)
          /\ Goto(t, "wcipher")
          /\ UNCHANGED faults
       \/ \E part \in Torn(tasks[t].wSig) :
            /\ fs' = WriteTo(fs, EncTemp(t), part)
            /\ Fail(t, "encFile.Write(wSig)")
    /\ UNCHANGED crashed
    /\ UNCHANGED env

\* lines 131-141: aes.Encrypt(key, plain), encFile.Write(cipher)
EncWriteCipher(t) ==
    /\ Live(t, "encrypt", "wcipher")
    /\ \/ \E nonce \in Nonces :
            /\ fs' = WriteTo(fs, EncTemp(t),
                             Encrypt(tasks[t].key, tasks[t].plain, nonce))
            /\ Goto(t, "rename")
            /\ UNCHANGED faults
       \/ /\ Fail(t, "aes.Encrypt")
          /\ UNCHANGED fs
       \/ \E nonce \in Nonces :
          \E part \in Torn(Encrypt(tasks[t].key, tasks[t].plain, nonce)) :
            /\ fs' = WriteTo(fs, EncTemp(t), part)
            /\ Fail(t, "encFile.Write")
    /\ UNCHANGED crashed
    /\ UNCHANGED env

\* lines 143-149: os.Rename(fullPath+".enc", fullPath)
EncRename(t) ==
    /\ Live(t, "encrypt", "rename")
    /\ \/ /\ fs' = Rename(fs, EncTemp(t), EncFullPath(t))
          /\ tasks' = [tasks EXCEPT ![t].pc = "sent", ![t].res = "nil",
                                    ![t].sent = @ + 1, ![t].renamed = TRUE]
          /\ UNCHANGED faults
       \/ /\ Fail(t, "os.Rename")
          /\ UNCHANGED fs
    /\ UNCHANGED crashed
    /\ UNCHANGED env

----------------------------------------------------------------------------
(* Walker.decryptWalk, decrypt.go:52-141 *)

\* the Walker of decrypt carries no startPath: the callback uses path as is
DecPath(t) == t[2]

DecTemp(t) == DecPath(t) \o DecSuffix

\* key, ok := keyMap[ext]
DecLookupKey(ext) == ext

\* rsa.VerifySignature(&privKey.PublicKey, sig, key, crypto.MD5) == nil on
\* sig := make([]byte, crypto.MD5.Size()) filled by cipherFile.Read(sig)
DecGate(data, key) ==
    VerifySignature(SliceTo(Prefix(data, MD5Size), MD5Size), key)

\* lines 53-63: enumeration error, directory
DecStart(t) ==
    /\ Live(t, "decrypt", "start")
    /\ IF tasks[t].enumErr
       THEN Skip(t)
       ELSE IF tasks[t].isDir
            THEN Finish(t, "nil")
            ELSE Goto(t, "create")
    /\ UNCHANGED <<fs, crashed, faults>>
    /\ UNCHANGED env

\* lines 65-77: os.OpenFile(path+".dec", O_WRONLY|O_CREATE|O_EXCL, info.Mode())
DecCreate(t) ==
    /\ Live(t, "decrypt", "create")
    /\ \/ /\ DecTemp(t) \in DOMAIN fs
          /\ Finish(t, "nil")
          /\ UNCHANGED <<fs, faults>>
       \/ /\ DecTemp(t) \notin DOMAIN fs
          /\ DirOf(DecTemp(t)) \in dirs
          /\ fs' = CreateExcl(fs, DecTemp(t), tasks[t].mode)
          /\ tasks' = [tasks EXCEPT ![t].pc = "open", ![t].created = TRUE,
                                    ![t].held = 1]
          /\ UNCHANGED faults
       \/ /\ DecTemp(t) \notin DOMAIN fs
          /\ DirOf(DecTemp(t)) \notin dirs
          /\ Finish(t, "os.OpenFile")
          /\ UNCHANGED <<fs, faults>>
       \/ /\ DecTemp(t) \notin DOMAIN fs
          /\ Fail(t, "os.OpenFile")
          /\ UNCHANGED fs
    /\ UNCHANGED crashed
    /\ UNCHANGED env

\* lines 79-93: os.OpenFile(path, os.O_RDONLY, info.Mode()), extension lookup
DecOpen(t) ==
    /\ Live(t, "decrypt", "open")
    /\ \/ /\ CanOpen(DecPath(t))
          /\ IF DecLookupKey(Ext(DecPath(t))) \notin DOMAIN keyMap
             THEN tasks' = [tasks EXCEPT ![t].pc = "sent", ![t].res = "nil",
                                         ![t].sent = @ + 1, ![t].held = 2]
             ELSE tasks' = [tasks EXCEPT
                              ![t].pc = "readsig",
                              ![t].held = 2,
                              ![t].plain = fs[DecPath(t)].data,
                              ![t].key = keyMap[DecLookupKey(Ext(DecPath(t)))]]
          /\ UNCHANGED faults
       \/ /\ ~CanOpen(DecPath(t))
          /\ Finish(t, "os.OpenFile")
          /\ UNCHANGED faults
       \/ Fail(t, "os.OpenFile")
    /\ UNCHANGED <<fs, crashed>>
    /\ UNCHANGED env

\* lines 108-132, taken in one step once the gate has let the file through:
\* io.ReadAll of the rest, aes.Decrypt, decFile.Write, os.Rename
DecTransform(t) ==
    LET cipher == Drop(tasks[t].plain, MD5Size) IN
    IF ~DecryptOk(tasks[t].key, cipher)
    THEN Finish(t, "aes.Decrypt") /\ UNCHANGED fs
    ELSE /\ fs' = Rename(WriteTo(fs, DecTemp(t), Decrypt(tasks[t].key, cipher)),
                         DecTemp(t), DecPath(t))
         /\ tasks' = [tasks EXCEPT ![t].pc = "sent", ![t].res = "nil",
                                   ![t].sent = @ + 1, ![t].renamed = TRUE]

\* lines 95-106: cipherFile.Read(sig), then the idempotency gate
DecReadSig(t) ==
    /\ Live(t, "decrypt", "readsig")
    /\ \/ /\ Len(tasks[t].plain) = 0
          /\ Finish(t, "cipherFile.Read")
          /\ UNCHANGED <<fs, faults>>
       \/ /\ Len(tasks[t].plain) > 0
          /\ IF ~DecGate(tasks[t].plain, tasks[t].key)
             THEN Finish(t, "nil") /\ UNCHANGED fs
             ELSE DecTransform(t)
          /\ UNCHANGED faults
       \/ /\ Fail(t, "cipherFile.Read")
          /\ UNCHANGED fs
    /\ UNCHANGED crashed
    /\ UNCHANGED env

----------------------------------------------------------------------------
(* The two ends of errChan, encrypt.go:152-157 and decrypt.go:135-140 *)

IsError(res) == res \notin {"pending", "nil"}

\* the path the callback puts in the error it returns:
\* filepath.Join(w.startPath, path) in encryptWalk, path in decryptWalk
ErrPathOf(t) == IF op = "encrypt" THEN EncFullPath(t) ELSE DecPath(t)

\* err = <-errC; close(errC); return the outcome, wrapped with the path
CallbackReturn(t) ==
    /\ ~crashed
    /\ phase = "running"
    /\ tasks[t].pc = "sent"
    /\ tasks' = [tasks EXCEPT
                   ![t].pc = "done",
                   ![t].errPath = IF IsError(tasks[t].res) THEN ErrPathOf(t)
                                  ELSE <<>>]
    /\ UNCHANGED <<fs, crashed, faults>>
    /\ UNCHANGED env

\* the worker goroutine, after its send, runs the deferred
\* plainFile.Close() / encFile.Close() (decFile, cipherFile) and ends
WorkerExit(t) ==
    /\ ~crashed
    /\ phase = "running"
    /\ tasks[t].pc \in {"sent", "done"}
    /\ tasks[t].held > 0
    /\ tasks' = [tasks EXCEPT ![t].held = 0]
    /\ UNCHANGED <<fs, crashed, faults>>
    /\ UNCHANGED env

----------------------------------------------------------------------------
(* encryptDirectories, encrypt.go:18-52, and decrypt, decrypt.go:18-50 *)

TasksOf(r) == {t \in DOMAIN tasks : t[1] = r}

\* what cwalk.Walk returns for root r: the failures its callbacks returned
\* (a WalkerErrorList), nil if there are none
WalkResult(r) ==
    {<<r, t[2], tasks[t].res>> : t \in {u \in TasksOf(r) : IsError(tasks[u].res)}}

\* var eList cwalk.WalkerErrorList: declared, never assigned
eList == {}

\* if errors.As(err, &cwalk.WalkerErrorList{}) {
\*     errList.ErrorList = append(errList.ErrorList, eList.ErrorList...) }
MergeErrors(list, err) ==
    IF err # {} THEN list \cup eList ELSE list

\* the root's goroutine sends what cwalk.Walk returned, the dispatcher
\* receives and merges it
Receive(r) ==
    /\ ~crashed
    /\ phase = "running"
    /\ rootState[r] = "walking"
    /\ \A t \in TasksOf(r) : tasks[t].pc = "done"
    /\ errList' = MergeErrors(errList, WalkResult(r))
    /\ rootState' = [rootState EXCEPT ![r] = "received"]
    /\ UNCHANGED <<keyMap, directories, runs, fs, dirs, runIdx, phase, tasks,
                   result, crashed, faults, hist>>

\* if len(errList.ErrorList) > 0 { return fmt.Errorf(...) }; return nil
Outcome(list) == IF Cardinality(list) > 0 THEN "error" ELSE "nil"

Return ==
    /\ ~crashed
    /\ phase = "running"
    /\ \A r \in Roots : rootState[r] = "received"
    /\ result' = Append(result, Outcome(errList))
    /\ phase' = "idle"
    /\ hist' = [hist EXCEPT !.end = Append(@, fs)]
    /\ UNCHANGED <<keyMap, directories, runs, fs, dirs, runIdx, rootState,
                   tasks, errList, crashed, faults>>

----------------------------------------------------------------------------

Next ==
    \/ StartRun
    \/ \E r \in Roots : WalkStart(r)
    \/ \E t \in DOMAIN tasks : EncStart(t)
    \/ \E t \in DOMAIN tasks : EncOpen(t)
    \/ \E t \in DOMAIN tasks : EncRead(t)
    \/ \E t \in DOMAIN tasks : EncSign(t)
    \/ \E t \in DOMAIN tasks : EncCreate(t)
    \/ \E t \in DOMAIN tasks : EncWriteSig(t)
    \/ \E t \in DOMAIN tasks : EncWriteCipher(t)
    \/ \E t \in DOMAIN tasks : EncRename(t)
    \/ \E t \in DOMAIN tasks : DecStart(t)
    \/ \E t \in DOMAIN tasks : DecCreate(t)
    \/ \E t \in DOMAIN tasks : DecOpen(t)
    \/ \E t \in DOMAIN tasks : DecReadSig(t)
    \/ \E t \in DOMAIN tasks : CallbackReturn(t)
    \/ \E t \in DOMAIN tasks : WorkerExit(t)
    \/ \E r \in Roots : Receive(r)
    \/ Return

Spec == Init /\ [][Next]_vars

----------------------------------------------------------------------------
(* Vocabulary of the properties *)

\* the file an entry of a root stands for
EntryPath(t) == Join(directories[t[1]], t[2])

\* the extension without its leading separator has a key
HasKey(path) == Len(Ext(path)) > 0 /\ Tail(Ext(path)) \in DOMAIN keyMap

KeyOf(path) == keyMap[Tail(Ext(path))]

\* data begins with the marker of key
Marked(data, key) ==
    /\ Len(data) >= Len(CreateSignature(key))
    /\ SubSeq(data, 1, Len(CreateSignature(key))) = CreateSignature(key)

\* the well-formed encrypted forms of plain: one marker, then its ciphertext
Wrapped(plain, key) ==
    {CreateSignature(key) \o Encrypt(key, plain, n) : n \in Nonces}

DoneRuns == Len(result)

\* a dispatcher call has returned and the next has not begun
Returned == phase = "idle" /\ runIdx >= 1

\* the files of the initial tree that are plaintext and have a key
PlainEligible ==
    {p \in DOMAIN hist.init :
        HasKey(p) /\ ~Marked(hist.init[p].data, KeyOf(p))}

----------------------------------------------------------------------------
\* C1: an encrypt run followed by a decrypt run with the same KeyMap and
\* identity leaves every plaintext file that has a key with its original
\* bytes.
C1_RoundTrip ==
    (runs = <<"encrypt", "decrypt">> /\ DoneRuns = 2 /\ faults = 0)
        => \A p \in PlainEligible :
              p \in DOMAIN fs /\ fs[p].data = hist.init[p].data

\* C3: decryptWalk on a file that has a key and is already plaintext (empty
\* and short files included) reports success, creates no file, renames
\* nothing and leaves the bytes unchanged.
C3_DecryptIdempotent ==
    \A t \in DOMAIN tasks :
        ( /\ runIdx = 1 /\ op = "decrypt" /\ faults = 0
          /\ tasks[t].pc = "done"
          /\ EntryPath(t) \in PlainEligible )
        => /\ tasks[t].res = "nil"
           /\ ~tasks[t].created
           /\ ~tasks[t].renamed
           /\ fs[EntryPath(t)] = hist.init[EntryPath(t)]

\* C4: for a regular file whose extension has no key (or that has no
\* extension) both callbacks return success, without crash, and leave the
\* file byte-identical.
C4_IneligibleSkipped ==
    /\ (faults = 0 /\ \A p \in DOMAIN hist.init : ~HasKey(p)) => ~crashed
    /\ \A t \in DOMAIN tasks :
        ( /\ runIdx = 1 /\ faults = 0
          /\ tasks[t].pc = "done"
          /\ EntryPath(t) \in DOMAIN hist.init
          /\ ~HasKey(EntryPath(t)) )
        => /\ tasks[t].res = "nil"
           /\ fs[EntryPath(t)] = hist.init[EntryPath(t)]

\* C5: of two workers of one run that transform the same plaintext file,
\* exactly one creates the temporary file and renames it over the path; the
\* other returns success without writing.
C5_ExactlyOneWriter ==
    \A t, u \in DOMAIN tasks :
        ( /\ t # u /\ EntryPath(t) = EntryPath(u)
          /\ op = "encrypt" /\ faults = 0
          /\ EntryPath(t) \in PlainEligible
          /\ tasks[t].pc = "done" /\ tasks[u].pc = "done" )
        => /\ tasks[t].res = "nil" /\ tasks[u].res = "nil"
           /\ tasks[t].renamed # tasks[u].renamed
           /\ tasks[t].created # tasks[u].created

\* C7: a dispatcher call returns nil only if no callback of any root
\* reported a failure; otherwise it returns an error naming every failure.
C7_ErrorsAggregated ==
    Returned =>
        /\ (result[runIdx] = "nil") <=>
              (\A t \in DOMAIN tasks : ~IsError(tasks[t].res))
        /\ errList = UNION {WalkResult(r) : r \in Roots}

\* C8: whatever happens in root A, once nothing more can run every
\* plaintext file with a key in a root without any failure is transformed.
C8_RootIsolation ==
    ( /\ runs = <<"encrypt">> /\ faults = 0
      /\ (crashed \/ Returned) )
        => \A p \in PlainEligible : p \in DOMAIN fs /\ Marked(fs[p].data, KeyOf(p))

\* C9: after a run that returned success no temporary file created by the
\* run is left.
C9_NoLeftoverTemp ==
    (Returned /\ result[runIdx] = "nil")
        => \A t \in DOMAIN tasks :
              tasks[t].created =>
                  (IF op = "encrypt" THEN EncTemp(t) ELSE DecTemp(t)) \notin DOMAIN fs

\* the temporary file of a worker of the current run
TempOf(t) == IF op = "encrypt" THEN EncTemp(t) ELSE DecTemp(t)

\* the worker of an entry has not yet handed its outcome to the callback
InFlight(t) == tasks[t].pc \notin {"sent", "done"}

\* C11: in every reachable state, for each original path at most one of
\* path + ".enc" and path + ".dec" exists.
C11_SingleTemp ==
    \A p \in DOMAIN hist.init :
        ~(p \o EncSuffix \in DOMAIN fs /\ p \o DecSuffix \in DOMAIN fs)

\* C12: a worker that created a temporary file and has finished (success,
\* skip or error) has renamed it away, so a temporary file that exists has
\* a creator still in flight.
C12_TempHasOwner ==
    /\ \A t \in DOMAIN tasks :
          (tasks[t].created /\ ~InFlight(t)) => tasks[t].renamed
    /\ \A p \in DOMAIN hist.init, sfx \in {EncSuffix, DecSuffix} :
          (p \o sfx \in DOMAIN fs) =>
              \E t \in DOMAIN tasks :
                  /\ runIdx >= 1 /\ TempOf(t) = p \o sfx
                  /\ tasks[t].created /\ InFlight(t)

\* C13: when every key of the KeyMap is an extension without its dot, the
\* lookup a worker of one direction made for a file and the lookup the other
\* direction makes for the same file agree on whether there is a key, and
\* on the key.
C13_SameLookup ==
    (\A e \in DOMAIN keyMap : Head(e) # ".")
        => \A t \in DOMAIN tasks :
              ( /\ runIdx >= 1
                /\ ~tasks[t].isDir /\ ~tasks[t].enumErr
                /\ Len(Ext(t[2])) > 0 )
              => /\ (op = "encrypt" /\ tasks[t].pc # "start")
                    => /\ (tasks[t].key # NoKey)
                             <=> (DecLookupKey(Ext(t[2])) \in DOMAIN keyMap)
                       /\ (tasks[t].key # NoKey)
                             => /\ DecLookupKey(Ext(t[2])) \in DOMAIN keyMap
                                /\ tasks[t].key = keyMap[DecLookupKey(Ext(t[2]))]
                 /\ (op = "decrypt" /\ tasks[t].held = 2)
                    => /\ (tasks[t].key # NoKey)
                             <=> (EncLookupKey(Ext(t[2])) \in DOMAIN keyMap)
                       /\ (tasks[t].key # NoKey)
                             => /\ EncLookupKey(Ext(t[2])) \in DOMAIN keyMap
                                /\ tasks[t].key = keyMap[EncLookupKey(Ext(t[2]))]

\* C14: the decrypt gate reads as many leading bytes as encryptWalk writes
\* as marker, and on a file encryptWalk produced with the same key it
\* verifies, leaving exactly the ciphertext behind the marker to decrypt.
C14_SameMarkerLength ==
    \A t \in DOMAIN tasks :
        ( /\ runIdx >= 1 /\ op = "encrypt"
          /\ tasks[t].renamed
          /\ EncFullPath(t) \in DOMAIN fs )
        => /\ MD5Size = Len(tasks[t].wSig)
           /\ DecGate(fs[EncFullPath(t)].data, tasks[t].key)
           /\ \E n \in Nonces :
                 Drop(fs[EncFullPath(t)].data, MD5Size)
                     = Encrypt(tasks[t].key, tasks[t].plain, n)

----------------------------------------------------------------------------
\* C2: an encrypt worker that read a file whose leading marker verifies
\* against the extension's key creates no temporary file, renames nothing
\* and leaves the bytes as they are; so of two encrypt runs in a row the
\* second leaves every file the first left encrypted byte-identical, and
\* the whole tree when no I/O call failed.
C2_EncryptIdempotent ==
    /\ \A t \in DOMAIN tasks :
        ( /\ runIdx >= 1 /\ op = "encrypt"
          /\ tasks[t].pc \notin {"start", "open"}
          /\ tasks[t].key # NoKey
          /\ Marked(tasks[t].plain, tasks[t].key) )
        => /\ tasks[t].pc \in {"read", "sent", "done"}
           /\ ~tasks[t].created
           /\ ~tasks[t].renamed
           /\ fs[EncFullPath(t)].data = tasks[t].plain
           /\ (tasks[t].pc = "done" /\ faults = 0) => tasks[t].res = "nil"
    /\ \A i \in 1..(Len(hist.end) - 1) :
        (runs[i] = "encrypt" /\ runs[i + 1] = "encrypt")
        => \A p \in DOMAIN hist.end[i] :
              (HasKey(p) /\ Marked(hist.end[i][p].data, KeyOf(p)))
              => p \in DOMAIN hist.end[i + 1] /\ hist.end[i + 1][p] = hist.end[i][p]
    /\ \A i \in 1..(Len(hist.end) - 1) :
        (runs[i] = "encrypt" /\ runs[i + 1] = "encrypt" /\ faults = 0)
        => hist.end[i + 1] = hist.end[i]

\* a second encrypt run has met, and skipped, a file the first run encrypted
C2_Witness ==
    /\ Len(hist.end) >= 2
    /\ runs[1] = "encrypt" /\ runs[2] = "encrypt"
    /\ runIdx = 2
    /\ pA \in PlainEligible
    /\ Marked(hist.end[1][pA].data, KeyOf(pA))
    /\ \E t \in DOMAIN tasks :
        /\ EncFullPath(t) = pA
        /\ tasks[t].pc = "done" /\ tasks[t].res = "nil"
        /\ tasks[t].key # NoKey
        /\ Marked(tasks[t].plain, tasks[t].key)
        /\ ~tasks[t].created

\* C6: once every worker of a run has finished, each file of the tree holds
\* its original bytes or exactly one marker followed by the encryption of
\* its original bytes: never a truncated or twice-wrapped form.
C6_NoCorruption ==
    Returned =>
        \A p \in DOMAIN hist.init :
            /\ p \in DOMAIN fs
            /\ \/ fs[p].data = hist.init[p].data
               \/ /\ p \in PlainEligible
                  /\ fs[p].data \in Wrapped(hist.init[p].data, KeyOf(p))

\* two workers raced on one path, both renamed, and the run has returned
C6_Witness ==
    /\ Returned
    /\ \E t, u \in DOMAIN tasks :
        /\ t # u /\ EncFullPath(t) = EncFullPath(u)
        /\ op = "encrypt"
        /\ tasks[t].renamed /\ tasks[u].renamed
        /\ fs[EncFullPath(t)].data
              \in Wrapped(hist.init[EncFullPath(t)].data, tasks[t].key)

\* the content a worker's rename publishes is complete
Complete(t) ==
    IF op = "encrypt"
    THEN fs[EncTemp(t)].data \in Wrapped(tasks[t].plain, tasks[t].key)
    ELSE fs[DecTemp(t)].data =
            Decrypt(tasks[t].key, Drop(tasks[t].plain, MD5Size))

\* C10: a step changes the file at an original path only by the rename of a
\* worker's temporary file over it, and what the rename puts there is the
\* complete new content; failures leave partial output in the temporary
\* file only.
C10_AtomicCommit ==
    /\ [](\A p \in DOMAIN hist.init :
            /\ p \in DOMAIN fs
            /\ \/ fs[p].data = hist.init[p].data
               \/ /\ p \in PlainEligible
                  /\ fs[p].data \in Wrapped(hist.init[p].data, KeyOf(p)))
    /\ [][ \A p \in DOMAIN hist.init :
             /\ p \in DOMAIN fs'
             /\ (fs'[p] # fs[p]) =>
                   \E t \in DOMAIN tasks :
                       /\ (IF op = "encrypt" THEN EncFullPath(t) ELSE DecPath(t)) = p
                       /\ tasks[t].pc = (IF op = "encrypt" THEN "rename" ELSE "readsig")
                       /\ tasks'[t].renamed
                       /\ op = "encrypt" => Complete(t)
                       /\ op = "encrypt" => fs'[p] = fs[EncTemp(t)]
                       /\ op = "encrypt" => EncTemp(t) \notin DOMAIN fs' ]_vars

\* a write failed half way: the temporary file holds partial output, the
\* original path still holds its old content
C10_Witness ==
    \E t \in DOMAIN tasks :
        /\ runIdx = 1 /\ op = "encrypt"
        /\ tasks[t].res = "encFile.Write"
        /\ EncTemp(t) \in DOMAIN fs
        /\ Len(fs[EncTemp(t)].data) > Len(tasks[t].wSig)
        /\ fs[EncTemp(t)].data \notin Wrapped(tasks[t].plain, tasks[t].key)
        /\ fs[EncFullPath(t)] = hist.init[EncFullPath(t)]

\* an encrypt worker holds the bytes of a file shorter than the marker
ShortRead(t) ==
    /\ runIdx >= 1 /\ op = "encrypt"
    /\ tasks[t].key # NoKey
    /\ tasks[t].pc \notin {"start", "open"}
    /\ Len(tasks[t].plain) < SIGNATURE_SIZE

C16_BenignSkip ==
    /\ [][ \A t \in DOMAIN tasks :
             ( /\ runIdx >= 1 /\ tasks[t].pc = "create"
               /\ TempOf(t) \in DOMAIN fs
               /\ t \in DOMAIN tasks' /\ tasks'[t] # tasks[t] )
             => /\ tasks'[t].pc = "sent" /\ tasks'[t].res = "nil"
                /\ ~tasks'[t].created /\ ~tasks'[t].renamed
                /\ fs' = fs ]_vars
    /\ [][ \A t \in DOMAIN tasks :
             ( /\ ~InFlight(t)
               /\ t \in DOMAIN tasks' /\ tasks'[t] # tasks[t] )
             => /\ tasks'[t].created = tasks[t].created
                /\ tasks'[t].renamed = tasks[t].renamed
                /\ tasks'[t].res = tasks[t].res
                /\ fs' = fs ]_vars

\* an encrypt worker got as far as the create, found the temporary file of
\* another worker, and was answered with success; both files are untouched
C16_Witness ==
    \E t \in DOMAIN tasks :
        /\ runIdx >= 1 /\ op = "encrypt"
        /\ tasks[t].pc = "done" /\ tasks[t].res = "nil"
        /\ tasks[t].wSig # <<>>
        /\ ~tasks[t].created /\ ~tasks[t].renamed
        /\ EncTemp(t) \in DOMAIN fs
        /\ fs[EncFullPath(t)] = hist.init[EncFullPath(t)]

\* the same in the decrypt direction: the temporary file a first decrypt
\* run left makes the second run's worker skip
C16_WitnessDec ==
    \E t \in DOMAIN tasks :
        /\ runIdx = 2 /\ op = "decrypt"
        /\ tasks[t].pc = "done" /\ tasks[t].res = "nil"
        /\ ~tasks[t].isDir /\ ~tasks[t].enumErr
        /\ tasks[t].held = 0 /\ ~tasks[t].created
        /\ DecTemp(t) \in DOMAIN hist.start[2]
        /\ DecTemp(t) \in DOMAIN fs

\* the path a worker hands to its file calls
WorkedPath(t) == IF op = "encrypt" THEN Join(directories[t[1]], t[2]) ELSE t[2]

C18_EnumErrorSkipped ==
    /\ [](\A t \in DOMAIN tasks :
            tasks[t].enumErr
            => /\ tasks[t].pc \in {"start", "done"}
               /\ tasks[t].pc = "done" => tasks[t].res = "nil"
               /\ tasks[t].errPath = <<>>
               /\ tasks[t].sent = 0 /\ tasks[t].held = 0
               /\ tasks[t].key = NoKey /\ tasks[t].plain = <<>>
               /\ ~tasks[t].created /\ ~tasks[t].renamed)
    /\ [][ \A t \in DOMAIN tasks :
             ( /\ tasks[t].enumErr
               /\ t \in DOMAIN tasks' /\ tasks'[t] # tasks[t] )
             => fs' = fs /\ crashed' = crashed ]_vars

\* the walk handed over one entry with an error and one without: the first
\* was skipped with nil, the second was encrypted, and the run returned
C18_Witness ==
    /\ Returned /\ op = "encrypt"
    /\ \E t, u \in DOMAIN tasks :
        /\ t[1] = u[1]
        /\ tasks[t].enumErr
        /\ tasks[t].pc = "done" /\ tasks[t].res = "nil"
        /\ ~tasks[u].enumErr /\ tasks[u].renamed

\* C19: the file a worker's rename put at the original path has the
\* permission mode the original file had.
C19_ModePreserved ==
    \A t \in DOMAIN tasks :
        ( /\ runIdx >= 1
          /\ tasks[t].renamed
          /\ WorkedPath(t) \in DOMAIN fs )
        => fs[WorkedPath(t)].mode = tasks[t].mode

\* C20: every worker sends exactly one outcome, on every control path: no
\* worker sends twice, a callback that has returned has received its
\* worker's one outcome and that worker has nothing left to run, and when
\* the process has ended no worker is left that never sent.
C20_Handshake ==
    /\ \A t \in DOMAIN tasks :
          ~tasks[t].enumErr
          => /\ tasks[t].sent <= 1
             /\ tasks[t].pc = "done" => (tasks[t].sent = 1 /\ tasks[t].held = 0)
    /\ (crashed \/ Returned)
          => \A t \in DOMAIN tasks : ~tasks[t].enumErr => tasks[t].sent = 1

====
